---- MODULE Spec2Model ----
(***************************************************************************)
(* Model of src/src/extension.ts: the Sorbet language-server launcher.     *)
(*                                                                         *)
(* JavaScript strings are sequences of one-character strings, so that      *)
(* trim(), endsWith() and shell escaping are computed, not assumed.        *)
(* JavaScript values read from the configuration are tagged records        *)
(* ([t |-> "undefined"], [t |-> "string", v |-> ...], [t |-> "boolean",    *)
(* v |-> ...]) so that the truthiness tests of the code (||, if, !) are    *)
(* computed as JavaScript computes them.                                   *)
(***************************************************************************)
EXTENDS Integers, Sequences, FiniteSets, TLC

----------------------------------------------------------------------------
(* Bounds of the model *)

\* how many times the restart command is invoked in one run
MaxRestarts == 2
\* longest commandOptions string enumerated over OptChars
MaxOptLen == 3
\* how many times the protocol client invokes serverOptions for one client
MaxSpawns == 2
\* how many stderr chunks of the server are logged in one run
MaxStderr == 1

----------------------------------------------------------------------------
(* String literals of the source *)

Srb == <<"s", "r", "b">>
Bundle == <<"b", "u", "n", "d", "l", "e">>
Exec == <<"e", "x", "e", "c">>
Tc == <<"t", "c">>
LspFlag == <<"-", "-", "l", "s", "p">>
EnableAllFlag == <<"-", "-", "e", "n", "a", "b", "l", "e", "-", "a", "l", "l", "-", "e", "x", "p", "e", "r", "i", "m", "e", "n", "t", "a", "l", "-", "l", "s", "p", "-", "f", "e", "a", "t", "u", "r", "e", "s">>
DisableWatchmanFlag == <<"-", "-", "d", "i", "s", "a", "b", "l", "e", "-", "w", "a", "t", "c", "h", "m", "a", "n">>
BinBash == <<"/", "b", "i", "n", "/", "b", "a", "s", "h">>
Cd == <<"c", "d">>
SorbetConfigSuffix == <<"/", "s", "o", "r", "b", "e", "t", "/", "c", "o", "n", "f", "i", "g">>
NullText == <<"n", "u", "l", "l">>

----------------------------------------------------------------------------
(* JavaScript values *)

Undefined == [t |-> "undefined"]
Null == [t |-> "null"]
Str(s) == [t |-> "string", v |-> s]
Bool(b) == [t |-> "boolean", v |-> b]

\* ToBoolean: undefined, null, "" and false are falsy
Truthy(x) ==
  CASE x.t = "string" -> x.v # <<>>
    [] x.t = "boolean" -> x.v
    [] OTHER -> FALSE

\* a || b
OrElse(a, b) == IF Truthy(a) THEN a ELSE b

\* the characters String.prototype.trim strips that the inputs can contain
WhiteSpace == {" ", "\t", "\n"}

RECURSIVE TrimStart(_)
TrimStart(s) ==
  IF s # <<>> /\ Head(s) \in WhiteSpace THEN TrimStart(Tail(s)) ELSE s

RECURSIVE TrimEnd(_)
TrimEnd(s) ==
  IF s # <<>> /\ s[Len(s)] \in WhiteSpace
    THEN TrimEnd(SubSeq(s, 1, Len(s) - 1))
    ELSE s

\* String.prototype.trim
Trim(s) == TrimEnd(TrimStart(s))

\* String.prototype.endsWith
EndsWith(s, suffix) ==
  /\ Len(s) >= Len(suffix)
  /\ SubSeq(s, Len(s) - Len(suffix) + 1, Len(s)) = suffix

----------------------------------------------------------------------------
(* Command Builder: lines 60-85 of startLanguageServer *)

\* a builder that keeps commandPath as the program bundle exec runs
CmdPrefixKeepsCommandPath(vsconfig) ==
  LET commandPath == OrElse(vsconfig.commandPath, Str(Srb)).v
      bundlerPath == OrElse(vsconfig.bundlerPath, Str(Bundle)).v
  IN IF Truthy(vsconfig.useBundler)
       THEN <<>> \o <<bundlerPath, Exec, commandPath>>
       ELSE Append(<<>>, commandPath)

CmdPrefix(vsconfig) ==
  LET commandPath == OrElse(vsconfig.commandPath, Str(Srb)).v
      bundlerPath == OrElse(vsconfig.bundlerPath, Str(Bundle)).v
  IN IF Truthy(vsconfig.useBundler)
       THEN <<>> \o <<bundlerPath, Exec, Srb>>
       ELSE Append(<<>>, commandPath)

\* a builder that forgets to trim commandOptions
CmdOptionsUntrimmed(vsconfig) ==
  LET commandOptions == vsconfig.commandOptions.v
  IN IF Truthy(Str(commandOptions))
       THEN <<commandOptions>>
       ELSE <<EnableAllFlag>>

CmdOptions(vsconfig) ==
  LET commandOptions == Trim(vsconfig.commandOptions.v)
  IN IF Truthy(Str(commandOptions))
       THEN <<commandOptions>>
       ELSE <<EnableAllFlag>>

\* a builder that tests useWatchman === false, so an unset value keeps watchman
CmdWatchmanStrictFalse(vsconfig) ==
  IF vsconfig.useWatchman = Bool(FALSE) THEN <<DisableWatchmanFlag>> ELSE <<>>

CmdWatchman(vsconfig) ==
  IF ~Truthy(vsconfig.useWatchman) THEN <<DisableWatchmanFlag>> ELSE <<>>

BuildCmd(vsconfig) ==
  ((CmdPrefix(vsconfig) \o <<Tc, LspFlag>>) \o CmdOptions(vsconfig))
    \o CmdWatchman(vsconfig)

----------------------------------------------------------------------------
(* shell-escape, as required at line 13 and called at lines 40 and 42 *)

\* the characters of the class [A-Za-z0-9_\/:=-]
SafeChars ==
  {"a", "b", "c", "d", "e", "f", "g", "h", "i", "j", "k", "l", "m", "n",
   "o", "p", "q", "r", "s", "t", "u", "v", "w", "x", "y", "z", "A", "B",
   "C", "D", "E", "F", "G", "H", "I", "J", "K", "L", "M", "N", "O", "P",
   "Q", "R", "S", "T", "U", "V", "W", "X", "Y", "Z", "0", "1", "2", "3",
   "4", "5", "6", "7", "8", "9", "_", "/", ":", "=", "-"}

Quote == "'"
BackSlash == "\\"

\* s.replace(/pat/g, rep) for a literal pattern: leftmost, non-overlapping
RECURSIVE ReplaceAll(_, _, _)
ReplaceAll(s, pat, rep) ==
  IF Len(s) < Len(pat) THEN s
  ELSE IF SubSeq(s, 1, Len(pat)) = pat
    THEN rep \o ReplaceAll(SubSeq(s, Len(pat) + 1, Len(s)), pat, rep)
    ELSE <<Head(s)>> \o ReplaceAll(Tail(s), pat, rep)

\* s.replace(/^(?:'')+/g, ''): drop the leading pairs of single quotes
RECURSIVE DropLeadingQuotePairs(_)
DropLeadingQuotePairs(s) ==
  IF Len(s) >= 2 /\ s[1] = Quote /\ s[2] = Quote
    THEN DropLeadingQuotePairs(SubSeq(s, 3, Len(s)))
    ELSE s

\* one element of shellescape's forEach
EscapeToken(s) ==
  IF \E i \in 1..Len(s) : s[i] \notin SafeChars
    THEN LET quoted == (<<Quote>> \o ReplaceAll(s, <<Quote>>,
                          <<Quote, BackSlash, Quote, Quote>>)) \o <<Quote>>
         IN ReplaceAll(DropLeadingQuotePairs(quoted),
                       <<BackSlash, Quote, Quote, Quote>>, <<BackSlash, Quote>>)
    ELSE s

\* ret.join(' ')
RECURSIVE JoinSpace(_)
JoinSpace(a) ==
  IF a = <<>> THEN <<>>
  ELSE IF Len(a) = 1 THEN a[1]
  ELSE (a[1] \o <<" ">>) \o JoinSpace(Tail(a))

ShellEscape(a) == JoinSpace([i \in 1..Len(a) |-> EscapeToken(a[i])])

----------------------------------------------------------------------------

(* State *)

VARIABLES
  platformName,      \* os.platform()
  envShell,          \* vscode.env.shell
  workspaceFolders,  \* vscode.workspace.workspaceFolders
  files,             \* the paths for which fs.existsSync answers true
  vsconfig,          \* vscode.workspace.getConfiguration('sorbet')
  client,            \* the module-level slot (line 23): 0 is undefined
  disposableClient,  \* the closure variable of activate (line 57): 0 is undefined
  clients,           \* every LanguageClient constructed so far, by identity
  restarts,          \* every invocation of restartLanguageServer so far
  microtasks,        \* promise reactions queued and not yet run
  phase,             \* "loaded", "active", "deactivating", "deactivated"
  deactTarget,       \* the client whose stop() deactivate returned: 0 is none
  notices,           \* showInformationMessage calls, by text
  logs               \* console.log calls, by handler

vars ==
  <<platformName, envShell, workspaceFolders, files, vsconfig, client,
    disposableClient, clients, restarts, microtasks, phase, deactTarget,
    notices, logs>>

envVars == <<platformName, envShell, workspaceFolders, vsconfig>>

----------------------------------------------------------------------------
(* The editor and the file system, as the code reads them *)

Darwin == <<"d", "a", "r", "w", "i", "n">>
Linux == <<"l", "i", "n", "u", "x">>
Win32 == <<"w", "i", "n", "3", "2">>
Bash == <<"b", "a", "s", "h">>
Zsh == <<"z", "s", "h">>
Proj == <<"/", "p", "r", "o", "j">>
OptSrb == <<"/", "o", "p", "t", "/", "s", "r", "b">>
OptBundle == <<"/", "o", "p", "t", "/", "b", "u", "n", "d", "l", "e">>

\* s.match(/sub/) for a literal pattern: sub occurs somewhere in s
Contains(s, sub) ==
  \E i \in 1..(Len(s) - Len(sub) + 1) : SubSeq(s, i, i + Len(sub) - 1) = sub

\* an array value of the editor API
Arr(a) == [t |-> "array", v |-> a]

\* line 87: the first workspace folder's fsPath, or null
FirstWorkspace ==
  IF workspaceFolders.t = "array" /\ Len(workspaceFolders.v) > 0
    THEN Str(workspaceFolders.v[1])
    ELSE Null

\* the text a template literal gives a value
TemplateText(x) == IF x.t = "string" THEN x.v ELSE NullText

\* line 89: `${firstWorkspace}/sorbet/config`
MarkerPath == TemplateText(FirstWorkspace) \o SorbetConfigSuffix

\* line 89: existsSync
ExistsSync(path) == path \in files


\* lines 25-31
CommonOptions(workspace) ==
  [cwd |-> IF Truthy(workspace) THEN workspace ELSE Undefined]

----------------------------------------------------------------------------
(* Shell-Aware Spawner: lines 33-54.  The result is the spawn call made     *)
(* and the array cmd as the call leaves it (cmd.shift() mutates it).        *)

AndAnd == <<" ", "&", "&", " ">>

DirectSpawn(cmd, opts) ==
  [call |-> [via |-> "crossSpawn",
             file |-> IF cmd = <<>> THEN Undefined ELSE Str(Head(cmd)),
             args |-> IF cmd = <<>> THEN <<>> ELSE Tail(cmd),
             options |-> [cwd |-> opts.cwd, shell |-> Undefined]],
   cmd |-> IF cmd = <<>> THEN <<>> ELSE Tail(cmd)]

\* a spawner that escapes cd, the directory, && and the command in one go
ShellSpawnOneSegment(shell, cmd, opts) ==
  LET shellCmd == IF Truthy(opts.cwd)
                    THEN ShellEscape(<<Cd, opts.cwd.v, <<"&", "&">>>> \o cmd)
                    ELSE ShellEscape(cmd)
  IN [call |-> [via |-> "child_process.spawn",
                file |-> Str(shell),
                args |-> <<<<"-", "l">>, <<"-", "c">>, shellCmd>>,
                options |-> [cwd |-> opts.cwd, shell |-> Str(shell)]],
      cmd |-> cmd]

ShellSpawn(shell, cmd, opts) ==
  LET escaped == ShellEscape(cmd)
      shellCmd == IF Truthy(opts.cwd)
                    THEN (ShellEscape(<<Cd, opts.cwd.v>>) \o AndAnd) \o escaped
                    ELSE escaped
  IN [call |-> [via |-> "child_process.spawn",
                file |-> Str(shell),
                args |-> <<<<"-", "l">>, <<"-", "c">>, shellCmd>>,
                options |-> [cwd |-> opts.cwd, shell |-> Str(shell)]],
      cmd |-> cmd]

\* a spawner that wraps on every Unix, whatever the shell
SpawnWithBashAnyShell(cmd, opts) ==
  IF Contains(platformName, Darwin) \/ Contains(platformName, Linux)
    THEN ShellSpawn(OrElse(envShell, Str(BinBash)).v, cmd, opts)
    ELSE DirectSpawn(cmd, opts)

SpawnWithBash(cmd, opts) ==
  IF Contains(platformName, Darwin) \/ Contains(platformName, Linux)
    THEN LET shell == OrElse(envShell, Str(BinBash)).v
         IN IF EndsWith(shell, Bash) \/ EndsWith(shell, Zsh)
              THEN ShellSpawn(shell, cmd, opts)
              ELSE DirectSpawn(cmd, opts)
    ELSE DirectSpawn(cmd, opts)

----------------------------------------------------------------------------

(* Connection lifecycle: the part of the state startLanguageServer and the  *)
(* handlers around it read and write, passed through the calls of one       *)
(* handler in the order the code makes them.                                *)

LS ==
  [client |-> client, disposableClient |-> disposableClient,
   clients |-> clients, notices |-> notices]

Commit(S) ==
  /\ client' = S.client
  /\ disposableClient' = S.disposableClient
  /\ clients' = S.clients
  /\ notices' = S.notices

\* new LanguageClient(...) followed by client.start(), lines 127-135
NewClient(cmd, env, by) ==
  [state |-> "starting", cmd |-> cmd, env |-> env, by |-> by,
   spawnLog |-> <<>>, procLive |-> FALSE, stopCalls |-> 0,
   disposeCalls |-> 0, onStop |-> <<>>]

\* startLanguageServer, lines 59-136; by is 0 for activate and the
\* restart's number otherwise
StartLanguageServer(S, by) ==
  LET cmd == BuildCmd(vsconfig)
      firstWorkspace == FirstWorkspace
  IN IF ~ExistsSync(MarkerPath)
       THEN [S EXCEPT !.notices.notFound = @ + 1]
       ELSE LET env == CommonOptions(firstWorkspace)
                id == Len(S.clients) + 1
            IN [S EXCEPT !.clients = Append(@, NewClient(cmd, env, by)),
                         !.client = id,
                         !.disposableClient = id]

\* client.stop(), lines 141 and 168: the protocol client starts its shutdown
\* handshake unless it is already stopping or stopped
ClientStop(S, c) ==
  [S EXCEPT !.clients[c].stopCalls = @ + 1,
            !.clients[c].state =
               IF @ \in {"starting", "running"} THEN "stopping" ELSE @]

\* disposableClient.dispose(), line 142: the disposable client.start()
\* returned stops its client when that client still needs stopping
Dispose(S, d) ==
  LET S1 == [S EXCEPT !.clients[d].disposeCalls = @ + 1]
  IN IF S1.clients[d].state \in {"starting", "running"}
       THEN ClientStop(S1, d)
       ELSE S1

----------------------------------------------------------------------------
(* Handlers *)

\* activate, lines 56-162
Activate ==
  /\ phase = "loaded"
  /\ phase' = "active"
  /\ Commit(StartLanguageServer(LS, 0))
  /\ UNCHANGED <<envVars, files, restarts, microtasks, deactTarget, logs>>

\* a restart that runs its reaction without awaiting client.stop()
RestartCommandWithoutAwait ==
  /\ phase = "active"
  /\ microtasks = <<>>
  /\ Len(restarts) < MaxRestarts
  /\ LET r == Len(restarts) + 1
     IN IF disposableClient # 0
          THEN /\ Commit(ClientStop(LS, client))
               /\ microtasks' = <<[kind |-> "stopped", r |-> r]>>
               /\ restarts' =
                    Append(restarts,
                           [old |-> client,
                            oldDisposable |-> disposableClient,
                            phase |-> "awaitStop"])
          ELSE /\ Commit(StartLanguageServer(LS, r))
               /\ microtasks' = <<[kind |-> "restarted", r |-> r]>>
               /\ restarts' =
                    Append(restarts,
                           [old |-> 0, oldDisposable |-> 0,
                            phase |-> "resolved"])
  /\ UNCHANGED <<envVars, files, phase, deactTarget, logs>>

\* the sorbet.restart command up to its first suspension, lines 138-151
\* and 154-155
RestartCommand ==
  /\ phase = "active"
  /\ microtasks = <<>>
  /\ Len(restarts) < MaxRestarts
  /\ LET r == Len(restarts) + 1
     IN IF disposableClient # 0
          THEN LET S1 == ClientStop(LS, client)
                   settled == S1.clients[client].state = "stopped"
               IN /\ Commit(IF settled
                              THEN S1
                              ELSE [S1 EXCEPT !.clients[client].onStop =
                                                 Append(@, r)])
                  /\ microtasks' =
                       IF settled THEN <<[kind |-> "stopped", r |-> r]>>
                                  ELSE <<>>
                  /\ restarts' =
                       Append(restarts,
                              [old |-> client,
                               oldDisposable |-> disposableClient,
                               phase |-> "awaitStop"])
          ELSE /\ Commit(StartLanguageServer(LS, r))
               /\ microtasks' = <<[kind |-> "restarted", r |-> r]>>
               /\ restarts' =
                    Append(restarts,
                           [old |-> 0, oldDisposable |-> 0,
                            phase |-> "resolved"])
  /\ UNCHANGED <<envVars, files, phase, deactTarget, logs>>

\* a reaction to client.stop() that never calls resolve()
StopReactionWithoutResolve ==
  /\ microtasks # <<>>
  /\ Head(microtasks).kind = "stopped"
  /\ LET r == Head(microtasks).r
         S1 == Dispose(LS, disposableClient)
     IN /\ Commit(StartLanguageServer(S1, r))
        /\ microtasks' = Tail(microtasks)
        /\ restarts' = [restarts EXCEPT ![r].phase = "resolved"]
  /\ UNCHANGED <<envVars, files, phase, deactTarget, logs>>

\* the reaction to client.stop(), lines 141-145
StopReaction ==
  /\ microtasks # <<>>
  /\ Head(microtasks).kind = "stopped"
  /\ LET r == Head(microtasks).r
         S1 == Dispose(LS, disposableClient)
     IN /\ Commit(StartLanguageServer(S1, r))
        /\ microtasks' =
             Append(Tail(microtasks), [kind |-> "restarted", r |-> r])
        /\ restarts' = [restarts EXCEPT ![r].phase = "resolved"]
  /\ UNCHANGED <<envVars, files, phase, deactTarget, logs>>

\* the reaction to restartLanguageServer(), lines 155-157
RestartedReaction ==
  /\ microtasks # <<>>
  /\ Head(microtasks).kind = "restarted"
  /\ LET r == Head(microtasks).r
     IN /\ notices' = [notices EXCEPT !.restarted = @ + 1]
        /\ restarts' = [restarts EXCEPT ![r].phase = "noticed"]
  /\ microtasks' = Tail(microtasks)
  /\ UNCHANGED <<envVars, files, client, disposableClient, clients, phase,
                 deactTarget, logs>>

\* a deactivate that calls client.stop() and returns undefined
DeactivateWithoutAwait ==
  /\ phase = "active"
  /\ microtasks = <<>>
  /\ IF client = 0
       THEN /\ deactTarget' = 0
            /\ UNCHANGED <<client, disposableClient, clients, notices>>
       ELSE /\ Commit(ClientStop(LS, client))
            /\ deactTarget' = client
  /\ phase' = "deactivated"
  /\ UNCHANGED <<envVars, files, restarts, microtasks, logs>>

\* deactivate, lines 164-169
Deactivate ==
  /\ phase = "active"
  /\ microtasks = <<>>
  /\ IF client = 0
       THEN /\ phase' = "deactivated"
            /\ deactTarget' = 0
            /\ UNCHANGED <<client, disposableClient, clients, notices>>
       ELSE LET S1 == ClientStop(LS, client)
            IN /\ Commit(S1)
               /\ deactTarget' = client
               /\ phase' = IF S1.clients[client].state = "stopped"
                             THEN "deactivated"
                             ELSE "deactivating"
  /\ UNCHANGED <<envVars, files, restarts, microtasks, logs>>

\* the protocol client calls serverOptions, lines 100-111: once when it
\* starts, and again when it reconnects after its server went away
ServerOptions(c) ==
  /\ microtasks = <<>>
  /\ c \in 1..Len(clients)
  /\ ~clients[c].procLive
  /\ \/ clients[c].state = "starting" /\ clients[c].spawnLog = <<>>
     \/ /\ clients[c].state = "running"
        /\ Len(clients[c].spawnLog) < MaxSpawns
  /\ LET spawned == SpawnWithBash(clients[c].cmd, clients[c].env)
     IN clients' = [clients EXCEPT ![c].cmd = spawned.cmd,
                                   ![c].spawnLog = Append(@, spawned.call),
                                   ![c].procLive = TRUE,
                                   ![c].state = "starting"]
  /\ UNCHANGED <<envVars, files, client, disposableClient, restarts,
                 microtasks, phase, deactTarget, notices, logs>>

\* child.stderr 'data', lines 103-105
StderrData(c) ==
  /\ microtasks = <<>>
  /\ c \in 1..Len(clients)
  /\ clients[c].procLive
  /\ logs.stderr < MaxStderr
  /\ logs' = [logs EXCEPT !.stderr = @ + 1]
  /\ UNCHANGED <<envVars, files, client, disposableClient, clients,
                 restarts, microtasks, phase, deactTarget, notices>>

\* an exit handler that starts the server again by itself
ProcessExitStartsAgain(c) ==
  /\ microtasks = <<>>
  /\ c \in 1..Len(clients)
  /\ clients[c].procLive
  /\ Commit(StartLanguageServer(
              [LS EXCEPT !.clients[c].procLive = FALSE], 0))
  /\ logs' = [logs EXCEPT !.exit = @ + 1]
  /\ UNCHANGED <<envVars, files, restarts, microtasks, phase, deactTarget>>

\* child 'exit', lines 106-108
ProcessExit(c) ==
  /\ microtasks = <<>>
  /\ c \in 1..Len(clients)
  /\ clients[c].procLive
  /\ clients' = [clients EXCEPT ![c].procLive = FALSE]
  /\ logs' = [logs EXCEPT !.exit = @ + 1]
  /\ UNCHANGED <<envVars, files, client, disposableClient, restarts,
                 microtasks, phase, deactTarget, notices>>

\* the protocol client finishes its initialize handshake (client.start(),
\* line 135)
ClientReady(c) ==
  /\ microtasks = <<>>
  /\ c \in 1..Len(clients)
  /\ clients[c].state = "starting"
  /\ clients[c].procLive
  /\ clients' = [clients EXCEPT ![c].state = "running"]
  /\ UNCHANGED <<envVars, files, client, disposableClient, restarts,
                 microtasks, phase, deactTarget, notices, logs>>

\* the promise of client.stop() resolves (lines 141 and 168): its reactions
\* are queued in the order they were attached
StopComplete(c) ==
  /\ microtasks = <<>>
  /\ c \in 1..Len(clients)
  /\ clients[c].state = "stopping"
  /\ clients' = [clients EXCEPT ![c].state = "stopped", ![c].onStop = <<>>]
  /\ microtasks' = [i \in 1..Len(clients[c].onStop) |->
                      [kind |-> "stopped", r |-> clients[c].onStop[i]]]
  /\ phase' = IF phase = "deactivating" /\ deactTarget = c
                THEN "deactivated"
                ELSE phase
  /\ UNCHANGED <<envVars, files, client, disposableClient, restarts,
                 deactTarget, notices, logs>>

\* the file existsSync looks for (line 89) is created or removed
FsChange ==
  /\ microtasks = <<>>
  /\ files' = IF MarkerPath \in files
                THEN files \ {MarkerPath}
                ELSE files \cup {MarkerPath}
  /\ UNCHANGED <<envVars, client, disposableClient, clients, restarts,
                 microtasks, phase, deactTarget, notices, logs>>

----------------------------------------------------------------------------
(* Specifications *)

DefaultConfig ==
  [commandPath |-> Str(<<>>), useBundler |-> Bool(FALSE),
   useWatchman |-> Bool(TRUE), bundlerPath |-> Str(<<>>),
   commandOptions |-> Str(<<>>)]

InitLifecycle ==
  /\ client = 0
  /\ disposableClient = 0
  /\ clients = <<>>
  /\ restarts = <<>>
  /\ microtasks = <<>>
  /\ phase = "loaded"
  /\ deactTarget = 0
  /\ notices = [notFound |-> 0, restarted |-> 0]
  /\ logs = [stderr |-> 0, exit |-> 0]

\* a workspace folder is open
Init ==
  /\ platformName \in {Linux, Win32}
  /\ envShell \in {Undefined}
  /\ workspaceFolders = Arr(<<Proj>>)
  /\ files \in SUBSET {MarkerPath}
  /\ vsconfig \in {DefaultConfig}
  /\ InitLifecycle

\* no workspace folder is open
InitNoWorkspace ==
  /\ platformName \in {Linux, Win32}
  /\ envShell \in {Undefined}
  /\ workspaceFolders \in {Undefined, Arr(<<>>)}
  /\ files \in SUBSET {MarkerPath}
  /\ vsconfig \in {DefaultConfig}
  /\ InitLifecycle

Next ==
  \/ Activate
  \/ RestartCommand
  \/ StopReaction
  \/ RestartedReaction
  \/ Deactivate
  \/ \E c \in 1..(MaxRestarts + 1) : ServerOptions(c)
  \/ \E c \in 1..(MaxRestarts + 1) : StderrData(c)
  \/ \E c \in 1..(MaxRestarts + 1) : ProcessExit(c)
  \/ \E c \in 1..(MaxRestarts + 1) : ClientReady(c)
  \/ \E c \in 1..(MaxRestarts + 1) : StopComplete(c)
  \/ FsChange

Spec == Init /\ [][Next]_vars

SpecNoWorkspace == InitNoWorkspace /\ [][Next]_vars

----------------------------------------------------------------------------

(* The Command Builder on its own: activation over every configuration      *)

OptChars == {" ", "\t", "-", "v"}

StringsUpTo(n) == UNION {[1..k -> OptChars] : k \in 0..n}

BuilderConfigs ==
  [commandPath : {Undefined, Str(<<>>), Str(OptSrb)},
   useBundler : {Undefined, Bool(FALSE), Bool(TRUE)},
   useWatchman : {Undefined, Bool(FALSE), Bool(TRUE)},
   bundlerPath : {Undefined, Str(<<>>), Str(OptBundle)},
   commandOptions : {Str(s) : s \in StringsUpTo(MaxOptLen)
                                      \cup {DisableWatchmanFlag}}]

InitCmd ==
  /\ platformName = Linux
  /\ envShell = Undefined
  /\ workspaceFolders = Arr(<<Proj>>)
  /\ files = {MarkerPath}
  /\ vsconfig \in BuilderConfigs
  /\ InitLifecycle

NextCmd == Activate

SpecCmd == InitCmd /\ [][NextCmd]_vars

----------------------------------------------------------------------------
(* Claims about the Command Builder (checked under SpecCmd)                 *)

\* the ServerLaunchSpec of the launch activation made
Launched == clients # <<>>
Argv == clients[1].cmd

UseBundlerSet == vsconfig.useBundler = Bool(TRUE)
UseWatchmanFalsy == vsconfig.useWatchman \in {Undefined, Bool(FALSE)}
NonEmptyOr(x, default) ==
  IF x.t = "string" /\ Len(x.v) > 0 THEN x.v ELSE default
\* where the token built from commandOptions stands
OptionsAt == IF UseBundlerSet THEN 6 ELSE 4
AllWhiteSpace(s) == \A i \in 1..Len(s) : s[i] \in WhiteSpace
\* t is s without its leading and trailing white space
IsTrimOf(t, s) ==
  /\ \E i \in 0..Len(s) : \E j \in i..Len(s) :
       /\ t = SubSeq(s, i + 1, j)
       /\ AllWhiteSpace(SubSeq(s, 1, i))
       /\ AllWhiteSpace(SubSeq(s, j + 1, Len(s)))
  /\ t # <<>> => t[1] \notin WhiteSpace /\ t[Len(t)] \notin WhiteSpace

\* C8: the argv starts with [bundlerPath or "bundle", "exec", "srb"] when
\* useBundler is set (commandPath is ignored) and with [commandPath or "srb"]
\* otherwise, and the prefix is immediately followed by "tc", "--lsp".
C8_PrefixThenFixedTokens ==
  Launched =>
    IF UseBundlerSet
      THEN /\ Len(Argv) >= 5
           /\ SubSeq(Argv, 1, 5) =
                <<NonEmptyOr(vsconfig.bundlerPath, Bundle), Exec, Srb, Tc,
                  LspFlag>>
      ELSE /\ Len(Argv) >= 3
           /\ SubSeq(Argv, 1, 3) =
                <<NonEmptyOr(vsconfig.commandPath, Srb), Tc, LspFlag>>

\* C8 witness: a launch through bundler with both paths customised
C8_Witness ==
  /\ Launched
  /\ UseBundlerSet
  /\ vsconfig.commandPath = Str(OptSrb)
  /\ vsconfig.bundlerPath = Str(OptBundle)
  /\ Argv[1] = OptBundle

\* C9: the token after "tc", "--lsp" is the trimmed commandOptions, as one
\* token, when that is non-empty and the default flag otherwise; a
\* whitespace-only commandOptions gives the argv an empty one gives; no
\* token of the argv is the empty string.
C9_OptionsToken ==
  Launched =>
    LET given == vsconfig.commandOptions.v
    IN /\ Len(Argv) >= OptionsAt
       /\ Len(Argv) <= OptionsAt + 1
       /\ IF AllWhiteSpace(given)
            THEN /\ Argv[OptionsAt] = EnableAllFlag
                 /\ Argv = BuildCmd([vsconfig EXCEPT
                                       !.commandOptions = Str(<<>>)])
            ELSE /\ Argv[OptionsAt] # <<>>
                 /\ IsTrimOf(Argv[OptionsAt], given)
       /\ \A i \in 1..Len(Argv) : Argv[i] # <<>>

\* C9 witness: white space around an option, and white space alone
C9_Witness ==
  /\ Launched
  /\ \/ /\ vsconfig.commandOptions.v = <<" ", "v", "\t">>
        /\ Argv[OptionsAt] = <<"v">>
     \/ /\ vsconfig.commandOptions.v = <<" ", "\t">>
        /\ Argv[OptionsAt] = EnableAllFlag

\* C10 as stated: the argv contains --disable-watchman if and only if
\* useWatchman is falsy, and when present it is the last token and occurs
\* exactly once.
C10_AsStated ==
  Launched =>
    LET at == {i \in 1..Len(Argv) : Argv[i] = DisableWatchmanFlag}
    IN /\ (at # {}) <=> UseWatchmanFalsy
       /\ at # {} => at = {Len(Argv)}

\* C10 amended: the builder appends --disable-watchman after the options
\* token if and only if useWatchman is falsy; it is then the last token and
\* the only token after the options token.
C10_FlagAfterOptions ==
  Launched =>
    IF UseWatchmanFalsy
      THEN /\ Len(Argv) = OptionsAt + 1
           /\ Argv[Len(Argv)] = DisableWatchmanFlag
      ELSE Len(Argv) = OptionsAt

\* C10 witness: useWatchman unset, and the flag is appended last
C10_Witness ==
  /\ Launched
  /\ vsconfig.useWatchman = Undefined
  /\ vsconfig.commandOptions.v = <<"-", "v">>
  /\ Argv[Len(Argv)] = DisableWatchmanFlag

----------------------------------------------------------------------------

(* Claims about the connection lifecycle (checked under Spec)               *)

Clients == 1..Len(clients)
\* a handle is active from client.start() until its stop handshake completes
Active(c) == clients[c].state \in {"starting", "running", "stopping"}
ActiveSet == {c \in Clients : Active(c)}
LiveSet == {c \in Clients : clients[c].procLive}
\* the steps in which startLanguageServer runs
StartRuns ==
  \/ Activate
  \/ StopReaction
  \/ RestartCommand /\ disposableClient = 0
\* the steps in which some client's serverOptions spawns a process
SpawnHappens ==
  \E c \in Clients : Len(clients'[c].spawnLog) > Len(clients[c].spawnLog)
\* the restarts that resolve in this step
Resolving ==
  {r \in 1..Len(restarts') :
     /\ restarts'[r].phase = "resolved"
     /\ r \in 1..Len(restarts) => restarts[r].phase = "awaitStop"}

\* C1: a client constructed by a restart that found a handle exists only
\* once the stop of that old client has completed and the old disposable
\* has been disposed, and the old disposable is disposed only after that
\* stop has completed; so neither the new client nor its process can come
\* before the completion of the old stop.
C1_StopThenDisposeThenStart ==
  [][/\ \A c \in 1..Len(clients') :
          LET r == clients'[c].by
          IN (r # 0 /\ restarts'[r].old # 0) =>
               /\ restarts'[r].old < c
               /\ clients'[restarts'[r].old].state = "stopped"
               /\ clients'[restarts'[r].oldDisposable].disposeCalls >= 1
               /\ c \notin Clients => clients[restarts'[r].old].state = "stopped"
     /\ \A r \in 1..Len(restarts) :
          LET d == restarts[r].oldDisposable
          IN (d # 0 /\ clients'[d].disposeCalls > clients[d].disposeCalls) =>
               clients[restarts[r].old].state = "stopped"
    ]_vars

\* C1 witness: a restart that found a running client has replaced it, and
\* the new client's server has been spawned
C1_Witness ==
  \E c \in Clients :
    /\ clients[c].by # 0
    /\ restarts[clients[c].by].old # 0
    /\ clients[restarts[clients[c].by].old].spawnLog # <<>>
    /\ clients[c].spawnLog # <<>>

\* C2: there are never two simultaneously-live server processes, a process
\* being live from its spawn until its exit event.
C2_AtMostOneLiveProcess == Cardinality(LiveSet) <= 1

\* C3: at most one handle is active (started and not yet stopped), and every
\* started client is the one held in the slot.
C3_AtMostOneActiveHandle ==
  /\ Cardinality(ActiveSet) <= 1
  /\ \A c \in ActiveSet : c = client

\* C4: when start() runs and <workspaceRoot>/sorbet/config does not exist
\* (also when no workspace root is known), no client is constructed, no
\* process is spawned, the slot and the disposable are left unchanged, and
\* exactly one notice is emitted.
MarkerAtRoot ==
  /\ FirstWorkspace.t = "string"
  /\ (FirstWorkspace.v \o SorbetConfigSuffix) \in files
C4_NoMarkerNoLaunch ==
  [][(StartRuns /\ ~MarkerAtRoot) =>
       /\ Len(clients') = Len(clients)
       /\ ~SpawnHappens
       /\ client' = client
       /\ disposableClient' = disposableClient
       /\ notices'.notFound = notices.notFound + 1
       /\ notices'.restarted = notices.restarted
    ]_vars

\* C4, the part of it the code keeps: the same with a known workspace root
C4_KnownRootNoMarkerNoLaunch ==
  [][(StartRuns /\ FirstWorkspace.t = "string" /\ ~MarkerAtRoot) =>
       /\ Len(clients') = Len(clients)
       /\ ~SpawnHappens
       /\ client' = client
       /\ disposableClient' = disposableClient
       /\ notices'.notFound = notices.notFound + 1
       /\ notices'.restarted = notices.restarted
    ]_vars

\* C5: restart works from every lifecycle state: with no handle ever created
\* it calls start() at once, without stop or dispose; with a handle it stops
\* and disposes it first; either way, with the marker present, it ends with
\* exactly one active handle, stored in the slot.
C5_RestartEndsWithOneHandle ==
  [][/\ (RestartCommand /\ clients = <<>>) =>
          /\ Len(restarts') \in Resolving
          /\ \A c \in Clients : clients'[c] = clients[c]
     /\ \A r \in Resolving :
          /\ restarts'[r].old # 0 =>
               /\ clients'[restarts'[r].old].state = "stopped"
               /\ clients'[restarts'[r].oldDisposable].disposeCalls >= 1
          /\ ExistsSync(MarkerPath) =>
               /\ Len(clients') = Len(clients) + 1
               /\ client' = Len(clients')
               /\ {c \in 1..Len(clients') :
                     clients'[c].state \in {"starting", "running", "stopping"}}
                    = {client'}
    ]_vars

\* C6: deactivation with no handle ever created returns at once without any
\* stop; otherwise it starts the stop of the client in the slot and is
\* complete exactly when that stop handshake is complete.
C6_DeactivateAwaitsStopOfSlot ==
  [][/\ (phase = "active" /\ phase' # "active") =>
          IF clients = <<>>
            THEN /\ phase' = "deactivated"
                 /\ clients' = clients
                 /\ deactTarget' = 0
            ELSE /\ deactTarget' = client
                 /\ client \in Clients
                 /\ clients'[client].stopCalls = clients[client].stopCalls + 1
                 /\ clients'[client].state \in {"stopping", "stopped"}
     /\ (phase' \in {"deactivating", "deactivated"} /\ deactTarget' # 0) =>
          (phase' = "deactivated" <=> clients'[deactTarget'].state = "stopped")
    ]_vars

\* C6 witness: deactivation stopped a started client by its own stop() call
\* and is complete
C6_Witness ==
  /\ phase = "deactivated"
  /\ deactTarget # 0
  /\ clients[deactTarget].stopCalls = 1
  /\ clients[deactTarget].disposeCalls = 0
  /\ clients[deactTarget].spawnLog # <<>>

\* C7: once deactivation has been requested no new client is started and no
\* new server process is spawned, and after deactivation has completed no
\* handle is active.
C7_NothingStartsAfterDeactivation ==
  [][/\ phase \in {"deactivating", "deactivated"} =>
          /\ Len(clients') = Len(clients)
          /\ ~SpawnHappens
     /\ phase' = "deactivated" =>
          {c \in 1..Len(clients') :
             clients'[c].state \in {"starting", "running", "stopping"}} = {}
    ]_vars

----------------------------------------------------------------------------

(* The Shell-Aware Spawner on its own: one launch, its server respawned,    *)
(* over the operating systems, shells, working directories and              *)
(* configurations that take every branch of spawnWithBash                   *)

FreeBsd == <<"f", "r", "e", "e", "b", "s", "d">>
BinZsh == <<"/", "b", "i", "n", "/", "z", "s", "h">>
BinFish == <<"/", "u", "s", "r", "/", "b", "i", "n", "/", "f", "i", "s", "h">>
BinSh == <<"/", "b", "i", "n", "/", "s", "h">>
MyProj == <<"/", "m", "y", " ", "p", "r", "o", "j">>
QuotedOptions == <<"-", "-", "d", "i", "r", "=", "i", "t", "'", "s">>

OptionsConfig ==
  [commandPath |-> Str(OptSrb), useBundler |-> Bool(TRUE),
   useWatchman |-> Bool(FALSE), bundlerPath |-> Str(<<>>),
   commandOptions |-> Str(QuotedOptions)]

InitSpawn ==
  /\ platformName \in {Darwin, Linux, Win32, FreeBsd}
  /\ envShell \in {Undefined, Str(<<>>), Str(BinBash), Str(BinZsh),
                   Str(BinFish), Str(BinSh), Str(Zsh)}
  /\ workspaceFolders \in {Undefined, Arr(<<Proj>>), Arr(<<MyProj>>)}
  /\ files = {MarkerPath}
  /\ vsconfig \in {DefaultConfig, OptionsConfig}
  /\ InitLifecycle

NextSpawn ==
  \/ Activate
  \/ ServerOptions(1)
  \/ ClientReady(1)
  \/ ProcessExit(1)

SpecSpawn == InitSpawn /\ [][NextSpawn]_vars

----------------------------------------------------------------------------
(* Claims about the Shell-Aware Spawner (checked under SpecSpawn)           *)

\* the OS name matches darwin or linux
UnixLike ==
  \E i \in 1..Len(platformName) : \E j \in i..Len(platformName) :
    SubSeq(platformName, i, j) \in {Darwin, Linux}
\* the preferred-shell setting, or /bin/bash when it is unset or empty
ResolvedShell ==
  IF envShell.t = "string" /\ envShell.v # <<>> THEN envShell.v ELSE BinBash
LastChars(s, n) == IF Len(s) < n THEN <<>> ELSE SubSeq(s, Len(s) - n + 1, Len(s))
BashOrZsh == LastChars(ResolvedShell, 4) = Bash \/ LastChars(ResolvedShell, 3) = Zsh
ShouldWrap == UnixLike /\ BashOrZsh
\* the steps in which client c's serverOptions calls the spawner, and the
\* call it makes
Spawning(c) ==
  /\ c \in Clients
  /\ Len(clients'[c].spawnLog) = Len(clients[c].spawnLog) + 1
SpawnCall(c) == clients'[c].spawnLog[Len(clients'[c].spawnLog)]

\* C11: the spawner wraps the command in a login shell if and only if the OS
\* name matches darwin or linux and the resolved shell path ends in bash or
\* zsh; in every other case it spawns the first token of the launch spec it
\* was handed, with the remaining tokens as arguments, without a shell and
\* without escaping.
C11_WrapIffUnixBashOrZsh ==
  [][\A c \in Clients : Spawning(c) =>
       LET handed == clients[c].cmd
           call == SpawnCall(c)
       IN /\ (call.via = "child_process.spawn") <=> ShouldWrap
          /\ ~ShouldWrap =>
               /\ call.via = "crossSpawn"
               /\ handed # <<>>
               /\ call.file = Str(handed[1])
               /\ call.args = SubSeq(handed, 2, Len(handed))
               /\ call.options.shell = Undefined
    ]_vars

\* C11 witness: a Unix with fish as the shell has spawned bundle directly,
\* its option token unescaped
C11_Witness ==
  /\ Launched
  /\ platformName = Linux
  /\ envShell = Str(BinFish)
  /\ vsconfig = OptionsConfig
  /\ Len(clients[1].spawnLog) = 1
  /\ clients[1].spawnLog[1].via = "crossSpawn"
  /\ clients[1].spawnLog[1].file = Str(Bundle)
  /\ clients[1].spawnLog[1].args[5] = QuotedOptions

\* C12: on the shell-wrapped path the spawner invokes the resolved shell with
\* exactly the arguments "-l", "-c", command, where command is escape(argv)
\* when no working directory is set and escape(["cd", cwd]) + " && " +
\* escape(argv) when one is; the spawn options carry the cwd and the shell
\* field set to the resolved shell path.
C12_LoginShellCommand ==
  [][\A c \in Clients : (Spawning(c) /\ ShouldWrap) =>
       LET handed == clients[c].cmd
           cwd == clients[c].env.cwd
           call == SpawnCall(c)
           command == IF cwd.t = "string" /\ cwd.v # <<>>
                        THEN ShellEscape(<<Cd, cwd.v>>)
                               \o <<" ", "&", "&", " ">> \o ShellEscape(handed)
                        ELSE ShellEscape(handed)
       IN /\ call.file = Str(ResolvedShell)
          /\ call.args = <<<<"-", "l">>, <<"-", "c">>, command>>
          /\ call.options = [cwd |-> cwd, shell |-> Str(ResolvedShell)]
    ]_vars

QuotedCommand ==
  <<"c", "d", " ", "'", "/", "m", "y", " ", "p", "r", "o", "j", "'", " ",
    "&", "&", " ", "b", "u", "n", "d", "l", "e", " ", "e", "x", "e", "c",
    " ", "s", "r", "b", " ", "t", "c", " ", "-", "-", "l", "s", "p", " ",
    "'", "-", "-", "d", "i", "r", "=", "i", "t", "'", "\\", "'", "'", "s",
    "'", " ", "-", "-", "d", "i", "s", "a", "b", "l", "e", "-", "w", "a",
    "t", "c", "h", "m", "a", "n">>

\* C12 witness: zsh on macOS, a working directory with a space and an option
\* with a quote: the two segments are escaped apart and joined by " && "
C12_Witness ==
  /\ Launched
  /\ platformName = Darwin
  /\ envShell = Str(BinZsh)
  /\ workspaceFolders = Arr(<<MyProj>>)
  /\ vsconfig = OptionsConfig
  /\ Len(clients[1].spawnLog) = 1
  /\ clients[1].spawnLog[1].file = Str(BinZsh)
  /\ clients[1].spawnLog[1].args[3] = QuotedCommand
  /\ clients[1].spawnLog[1].options.cwd = Str(MyProj)

\* the program the Command Builder resolved
ProgramName ==
  IF UseBundlerSet
    THEN NonEmptyOr(vsconfig.bundlerPath, Bundle)
    ELSE NonEmptyOr(vsconfig.commandPath, Srb)

\* C13: at every invocation of serverOptions for one launch, the first and
\* every later one, the launch spec handed to the spawner is non-empty and
\* starts with the resolved program name, and the spawn made is the one the
\* first invocation made.
C13_SameLaunchSpecEveryInvocation ==
  [][\A c \in Clients : Spawning(c) =>
       /\ clients[c].cmd # <<>>
       /\ clients[c].cmd[1] = ProgramName
       /\ SpawnCall(c) = clients'[c].spawnLog[1]
    ]_vars

----------------------------------------------------------------------------

(* Further claims about the connection lifecycle (checked under Spec)       *)

\* the steps in which the exit event of client c's server fires
Exits(c) == c \in Clients /\ clients[c].procLive /\ ~clients'[c].procLive

\* C14: a server exit event writes one log line and nothing else: the slot,
\* the disposable, every client's lifecycle state, the notices and the
\* pending restarts stay as they are, and nothing is stopped, started or
\* spawned.
C14_ExitOnlyLogs ==
  [][\A c \in Clients : Exits(c) =>
       /\ logs' = [logs EXCEPT !.exit = @ + 1]
       /\ client' = client
       /\ disposableClient' = disposableClient
       /\ notices' = notices
       /\ restarts' = restarts
       /\ microtasks' = microtasks
       /\ phase' = phase
       /\ Len(clients') = Len(clients)
       /\ \A d \in Clients :
            /\ clients'[d].state = clients[d].state
            /\ clients'[d].stopCalls = clients[d].stopCalls
            /\ clients'[d].disposeCalls = clients[d].disposeCalls
            /\ clients'[d].spawnLog = clients[d].spawnLog
    ]_vars

\* C14 witness: the server of the running client in the slot has exited, and
\* the client is still running, with no server
C14_Witness ==
  /\ client \in Clients
  /\ clients[client].state = "running"
  /\ ~clients[client].procLive
  /\ logs.exit = 1
  /\ notices = [notFound |-> 0, restarted |-> 0]

----------------------------------------------------------------------------

(* The restart command under fairness: promise reactions always run (the    *)
(* job queue is drained before anything else happens), and a stop handshake *)
(* that was begun resolves                                                  *)

\* one platform: the restart command does not read it
InitFair ==
  /\ platformName = Linux
  /\ envShell = Undefined
  /\ workspaceFolders = Arr(<<Proj>>)
  /\ files \in SUBSET {MarkerPath}
  /\ vsconfig = DefaultConfig
  /\ InitLifecycle

SpecFair ==
  /\ InitFair
  /\ [][Next]_vars
  /\ WF_vars(StopReaction)
  /\ WF_vars(RestartedReaction)
  /\ \A c \in 1..(MaxRestarts + 1) : WF_vars(StopComplete(c))

Invoked(r) == Len(restarts) >= r

Noticed(r) == Invoked(r) /\ restarts[r].phase = "noticed"

\* the handle restart r called stop() on is stopped (or there was none)
OldStopped(r) ==
  restarts[r].old = 0 \/ clients[restarts[r].old].state = "stopped"

\* C15: every invocation of the restart command leads to its "Sorbet server
\* restarted." notice; the notice is shown once per invocation (the count of
\* notices is the count of invocations that reached it, and an invocation
\* that reached it stays there); and it is shown only after the old handle's
\* stop completed and resolve() ran behind startLanguageServer().
C15_EveryRestartNoticedOnce ==
  /\ \A r \in 1..MaxRestarts : Invoked(r) ~> Noticed(r)
  /\ [](notices.restarted =
          Cardinality({r \in 1..Len(restarts) : Noticed(r)}))
  /\ [](\A r \in 1..Len(restarts) : Noticed(r) => OldStopped(r))
  /\ [][\A r \in 1..Len(restarts) :
          /\ Noticed(r) => Noticed(r)'
          /\ (~Noticed(r) /\ Noticed(r)') =>
               /\ restarts[r].phase = "resolved"
               /\ notices'.restarted = notices.restarted + 1
      ]_vars

\* C15 witness: a restart that had a handle to stop has shown its notice
C15_Witness ==
  /\ Noticed(1)
  /\ restarts[1].old # 0
  /\ clients[restarts[1].old].state = "stopped"
  /\ clients[restarts[1].old].disposeCalls = 1
  /\ notices.restarted = 1

----------------------------------------------------------------------------

(* Notices and repeated restarts (checked under Spec)                       *)

\* the steps in which restart r shows its "Sorbet server restarted." notice
ShowsRestarted(r) == ~Noticed(r) /\ Noticed(r)'

\* C16: when restart r shows the "Sorbet server restarted." notice, a client
\* constructed and started by restart r is in the slot and is active, and
\* restart r has shown no "Sorbet config not found" notice.
C16_RestartedMeansNewActiveHandle ==
  [][\A r \in 1..Len(restarts) : ShowsRestarted(r) =>
       /\ client \in Clients
       /\ clients[client].by = r
       /\ Active(client)
    ]_vars

\* every restart invoked so far has run to its end
RestartsDone == \A r \in 1..Len(restarts) : Noticed(r)

\* C17: once the restarts invoked so far have run to their end, a handle
\* that is stopped and whose disposable was disposed is never handed to
\* stop() or dispose() again, by a further restart or by deactivation.
C17_DisposedHandleLeftAlone ==
  [][\A c \in Clients :
       (/\ RestartsDone
        /\ clients[c].state = "stopped"
        /\ clients[c].disposeCalls >= 1) =>
          /\ clients'[c].stopCalls = clients[c].stopCalls
          /\ clients'[c].disposeCalls = clients[c].disposeCalls
    ]_vars

----------------------------------------------------------------------------
====
